---------------------------- MODULE Spec2Model ----------------------------
(***************************************************************************)
(* Model of src/server/api/routers/board.ts: the board router (byName,     *)
(* byNameSimple, updateCustomization, exampleBoard, addAppsForContainers)  *)
(* and its reshaping helpers (mapSection, mapApp, mapWidget, mapSecret,    *)
(* mapOptions, addAtPath).                                                 *)
(*                                                                         *)
(* Strings that the code takes apart (option paths, option values) are     *)
(* sequences of one-character strings; all other strings are opaque.       *)
(***************************************************************************)
EXTENDS Integers, Sequences, FiniteSets, TLC

VARIABLES
    db,         \* the tables, each the sequence of its rows in insertion order
    configs,    \* data/configs/<name>.json: the file's content, by name
    ex,         \* the exampleBoard requests: where each stands in its inserts
    call,       \* the other request being served: handler, input, locals, result
    original,   \* the nested option value a widget was saved with
    options,    \* its flat option rows, in the order the query returned them
    mapped      \* what mapOptions(options) produced

optVars == <<original, options, mapped>>

vars == <<db, configs, ex, call, original, options, mapped>>

(***************************************************************************)
(* Characters and JavaScript string primitives                             *)
(***************************************************************************)
Digits == <<"0", "1", "2", "3", "4", "5", "6", "7", "8", "9">>

IsDigit(c) == \E i \in 1..10 : Digits[i] = c

DigitVal(c) == (CHOOSE i \in 1..10 : Digits[i] = c) - 1

\* Primary collation weight of a character under String.prototype.localeCompare
\* (punctuation before digits before letters).
CharRank(c) ==
    CASE c = "-" -> 1
      [] c = "." -> 2
      [] IsDigit(c) -> 3 + DigitVal(c)
      [] c = "a" -> 20
      [] c = "b" -> 21
      [] c = "x" -> 22
      [] OTHER -> 30

RECURSIVE localeCompare(_, _)
localeCompare(a, b) ==
    IF a = <<>> /\ b = <<>> THEN 0
    ELSE IF a = <<>> THEN -1
    ELSE IF b = <<>> THEN 1
    ELSE IF CharRank(Head(a)) < CharRank(Head(b)) THEN -1
    ELSE IF CharRank(Head(a)) > CharRank(Head(b)) THEN 1
    ELSE localeCompare(Tail(a), Tail(b))

\* s.includes('.')
includes(s, c) == \E i \in 1..Len(s) : s[i] = c

\* s.split('.'): the pieces between the dots; "" splits to [""].
RECURSIVE splitFrom(_, _)
splitFrom(s, piece) ==
    IF s = <<>> THEN <<piece>>
    ELSE IF Head(s) = "." THEN <<piece>> \o splitFrom(Tail(s), <<>>)
    ELSE splitFrom(Tail(s), Append(piece, Head(s)))

split(s) == splitFrom(s, <<>>)

RECURSIVE NatToStr(_)
NatToStr(n) ==
    IF n < 10 THEN <<Digits[n + 1]>>
    ELSE NatToStr(n \div 10) \o <<Digits[(n % 10) + 1]>>

\* The leading decimal digits of s as a number, and how many there are.
RECURSIVE digitsPrefix(_, _, _)
digitsPrefix(s, acc, count) ==
    IF s # <<>> /\ IsDigit(Head(s))
    THEN digitsPrefix(Tail(s), acc * 10 + DigitVal(Head(s)), count + 1)
    ELSE [n |-> acc, count |-> count, rest |-> s]

(***************************************************************************)
(* Numbers are held in tenths (15 is 1.5), so that the parseFloat branch   *)
(* of addAtPath has inputs.  nan marks JavaScript's NaN.                   *)
(***************************************************************************)
NaN == [nan |-> TRUE, n |-> 0]

Number(tenths) == [nan |-> FALSE, n |-> tenths]

\* parseInt(value, 10): optional sign, then digits up to the first other character.
parseInt(value) ==
    LET neg == value # <<>> /\ Head(value) = "-"
        body == IF neg THEN Tail(value) ELSE value
        d == digitsPrefix(body, 0, 0)
    IN  IF d.count = 0 THEN NaN
        ELSE Number((IF neg THEN -1 ELSE 1) * d.n * 10)

\* parseFloat(value): sign, digits, and a fraction after the dot.
parseFloat(value) ==
    LET neg == value # <<>> /\ Head(value) = "-"
        body == IF neg THEN Tail(value) ELSE value
        d == digitsPrefix(body, 0, 0)
        hasFrac == d.rest # <<>> /\ Head(d.rest) = "."
                   /\ Len(d.rest) > 1 /\ IsDigit(d.rest[2])
        frac == IF hasFrac THEN DigitVal(d.rest[2]) ELSE 0
    IN  IF d.count = 0 /\ ~hasFrac THEN NaN
        ELSE Number((IF neg THEN -1 ELSE 1) * (d.n * 10 + frac))

(***************************************************************************)
(* JSON values.  Every value is a record of the same shape; t is the       *)
(* JavaScript type, m the own properties of an object or array (an array   *)
(* element i is the property whose key is the decimal string of i).        *)
(***************************************************************************)
NoProps == [k \in {} |-> 0]

JNull == [t |-> "null", num |-> Number(0), s |-> <<>>, b |-> FALSE, m |-> NoProps]

JNumber(x) == [JNull EXCEPT !.t = "number", !.num = x]

JString(s) == [JNull EXCEPT !.t = "string", !.s = s]

JBoolean(b) == [JNull EXCEPT !.t = "boolean", !.b = b]

JObject(m) == [JNull EXCEPT !.t = "object", !.m = m]

JArray(elems) ==
    [JNull EXCEPT !.t = "array",
                  !.m = [k \in {NatToStr(i - 1) : i \in 1..Len(elems)} |->
                            elems[(CHOOSE i \in 1..Len(elems) : NatToStr(i - 1) = k)]]]

IsContainer(v) == v.t \in {"object", "array"}

\* obj[key] = v
SetProp(obj, key, v) == [obj EXCEPT !.m = (key :> v) @@ obj.m]


\* String(x) for a number: the property key of current[parseInt(key, 10)].
NumToStr(x) ==
    IF x.nan THEN <<"N", "a", "N">>
    ELSE LET a == IF x.n < 0 THEN -x.n ELSE x.n
             sign == IF x.n < 0 THEN <<"-">> ELSE <<>>
             frac == IF a % 10 = 0 THEN <<>> ELSE <<".", Digits[(a % 10) + 1]>>
         IN  sign \o NatToStr(a \div 10) \o frac

(***************************************************************************)
(* Option rows: [path, type, value], value being the stored string.        *)
(***************************************************************************)
Row(path, type, value) == [path |-> path, type |-> type, value |-> value]

True == <<"t", "r", "u", "e">>

False == <<"f", "a", "l", "s", "e">>

\* The walk of addAtPath over pathArray, then the assignment to
\* current[lastKey].  assign is FALSE when no branch of the type dispatch
\* stores anything.  thrown: a TypeError left the function.
RECURSIVE assignAt(_, _, _, _, _)
assignAt(current, pathArray, lastKey, assign, v) ==
    IF pathArray = <<>> THEN
        IF ~assign THEN [thrown |-> FALSE, obj |-> current]
        ELSE IF IsContainer(current)
             THEN [thrown |-> FALSE, obj |-> SetProp(current, lastKey, v)]
             ELSE [thrown |-> TRUE, obj |-> current]
    ELSE IF current.t = "null" THEN [thrown |-> TRUE, obj |-> current]
    ELSE IF ~IsContainer(current) THEN [thrown |-> assign, obj |-> current]
    ELSE LET key == IF current.t = "array"
                    THEN NumToStr(parseInt(Head(pathArray)))
                    ELSE Head(pathArray)
         IN  IF key \notin DOMAIN current.m
             THEN [thrown |-> assign, obj |-> current]
             ELSE LET r == assignAt(current.m[key], Tail(pathArray), lastKey, assign, v)
                  IN  [thrown |-> r.thrown,
                       obj |-> IF r.thrown THEN current ELSE SetProp(current, key, r.obj)]

addAtPath(outerObj, item) ==
    LET parts == split(item.path)
        pathArray == SubSeq(parts, 1, Len(parts) - 1)
        lastKey == parts[Len(parts)]
        assign == \/ item.type \in {"array", "object", "boolean", "string", "null"}
                  \/ item.type = "number" /\ item.value # <<>>
        v == CASE item.type = "array" -> JArray(<<>>)
               [] item.type = "object" -> JObject(NoProps)
               [] item.type = "number" ->
                    JNumber(IF includes(item.value, ".")
                            THEN parseFloat(item.value)
                            ELSE parseInt(item.value))
               [] item.type = "boolean" -> JBoolean(item.value = True)
               [] item.type = "string" -> JString(item.value)
               [] OTHER -> JNull
    IN  assignAt(outerObj, pathArray, lastKey, assign, v)

\* options.sort((a, b) => a.path.localeCompare(b.path)): a stable sort.
RECURSIVE insertByPath(_, _)
insertByPath(sorted, item) ==
    IF sorted = <<>> THEN <<item>>
    ELSE IF localeCompare(item.path, Head(sorted).path) < 0 THEN <<item>> \o sorted
    ELSE <<Head(sorted)>> \o insertByPath(Tail(sorted), item)

RECURSIVE sortByPath(_)
sortByPath(rows) ==
    IF rows = <<>> THEN <<>>
    ELSE insertByPath(sortByPath(SubSeq(rows, 1, Len(rows) - 1)), rows[Len(rows)])

RECURSIVE addAll(_, _)
addAll(acc, sorted) ==
    IF sorted = <<>> \/ acc.thrown THEN acc
    ELSE addAll(addAtPath(acc.obj, Head(sorted)), Tail(sorted))

mapOptions(rows) == addAll([thrown |-> FALSE, obj |-> JObject(NoProps)], sortByPath(rows))

(***************************************************************************)
(* The flattening that produced the rows: one row per node below the root, *)
(* its path the keys from the root joined by dots.                         *)
(***************************************************************************)
RECURSIVE keysInOrder(_)
keysInOrder(keys) ==
    IF keys = {} THEN <<>>
    ELSE LET k == CHOOSE x \in keys : \A y \in keys : localeCompare(x, y) <= 0
         IN  <<k>> \o keysInOrder(keys \ {k})

RowValue(v) ==
    CASE v.t = "number" -> NumToStr(v.num)
      [] v.t = "string" -> v.s
      [] v.t = "boolean" -> IF v.b THEN True ELSE False
      [] OTHER -> <<>>

RECURSIVE flattenKeys(_, _, _)
RECURSIVE flattenAt(_, _)
flattenAt(prefix, v) ==
    IF IsContainer(v) THEN flattenKeys(prefix, v, keysInOrder(DOMAIN v.m)) ELSE <<>>

flattenKeys(prefix, v, keys) ==
    IF keys = <<>> THEN <<>>
    ELSE LET path == prefix \o Head(keys)
             child == v.m[Head(keys)]
         IN  <<Row(path, child.t, RowValue(child))>>
             \o flattenAt(path \o <<".">>, child)
             \o flattenKeys(prefix, v, Tail(keys))

flatten(v) == flattenAt(<<>>, v)

(***************************************************************************)
(* Option values the reconstruction is run on: a root object of up to      *)
(* MaxProps properties, each a leaf, an object of one inner leaf, an array *)
(* of up to MaxElems inner leaves; and the roots that hold arrays of       *)
(* BigLen numbers.                                                         *)
(***************************************************************************)
MaxProps == 2

MaxElems == 1

BigLen == 11

MaxShuffle == 3

Keys == {<<"a">>, <<"b">>, <<"a", ".", "b">>}

Leaves ==
    {JNumber(Number(0)), JNumber(Number(-15)), JNumber(Number(120)),
     JString(<<>>), JString(<<"x">>), JBoolean(TRUE), JBoolean(FALSE), JNull}

InnerLeaves == {JNumber(Number(-15)), JString(<<"x">>), JNull}

ObjectsOver(vals, n) ==
    {JObject(m) : m \in UNION {[ks -> vals] : ks \in {k \in SUBSET Keys : Cardinality(k) <= n}}}

ArraysOver(vals, n) ==
    {JArray(e) : e \in UNION {[1..len -> vals] : len \in 0..n}}

BigArray == JArray([i \in 1..BigLen |-> JNumber(Number(10 * (i - 1)))])

Inner ==
    Leaves \cup ObjectsOver(InnerLeaves, 1) \cup ArraysOver(InnerLeaves, MaxElems)

Roots ==
    ObjectsOver(Inner, MaxProps) \cup ObjectsOver({BigArray, JString(<<"x">>)}, MaxProps)

\* The orders the rows of a query may come in: every order of up to MaxShuffle
\* rows, the rotations and their reversals of longer lists.
Orders(n) ==
    IF n <= MaxShuffle
    THEN {p \in [1..n -> 1..n] : \A i, j \in 1..n : p[i] = p[j] => i = j}
    ELSE UNION {{[i \in 1..n |-> ((i + k) % n) + 1],
                 [i \in 1..n |-> n - ((i + k) % n)]} : k \in 0..(n - 1)}

NotMapped == [done |-> FALSE, thrown |-> FALSE, obj |-> JNull]

NotQueried == <<Row(<<>>, "unread", <<>>)>>

InitOptions ==
    \E v \in Roots :
        /\ original = v
        /\ options = NotQueried
        /\ mapped = NotMapped
        /\ db = [option |-> <<>>]
        /\ configs = <<>>
        /\ ex = <<>>
        /\ call = [op |-> "none", pc |-> "done"]

\* The rows of the widget's options as the query returns them: in any order.
QueryOptions ==
    /\ options = NotQueried
    /\ LET rows == flatten(original)
       IN  \E p \in Orders(Len(rows)) :
               options' = [i \in 1..Len(rows) |-> rows[p[i]]]
    /\ UNCHANGED <<original, mapped, db, configs, ex, call>>

\* mapWidget's call mapOptions(widget.options) on the rows of one widget.
MapOptions ==
    /\ options # NotQueried
    /\ ~mapped.done
    /\ mapped' = [done |-> TRUE] @@ mapOptions(options)
    /\ UNCHANGED <<original, options, db, configs, ex, call>>

NextOptions == QueryOptions \/ MapOptions

SpecOptions == InitOptions /\ [][NextOptions]_vars

\* C1: mapOptions applied to the rows of a flattened value, in any order,
\* returns a value equal to the original.
C1_OptionsRoundTrip == mapped.done => ~mapped.thrown /\ mapped.obj = original

HasDottedKey(v) == \E k \in DOMAIN v.m : includes(k, ".") 

PlainKeys(v) ==
    /\ ~HasDottedKey(v)
    /\ \A k \in DOMAIN v.m : IsContainer(v.m[k]) => ~HasDottedKey(v.m[k])

\* The round trip on the values none of whose keys holds a dot.
OptionsRoundTripPlainKeys ==
    mapped.done /\ PlainKeys(original) => ~mapped.thrown /\ mapped.obj = original

(***************************************************************************)
(* The database.  A nullable text column holds Null or a string; a         *)
(* nullable integer column holds SqlNull or SqlInt(n).                     *)
(***************************************************************************)
Null == "<null>"

Undefined == "<undefined>"

SqlNull == [null |-> TRUE, n |-> 0]

SqlInt(n) == [null |-> FALSE, n |-> n]

EmptyDb ==
    [board |-> <<>>, layout |-> <<>>, section |-> <<>>, item |-> <<>>, app |-> <<>>,
     appItem |-> <<>>, widget |-> <<>>, option |-> <<>>, layoutItem |-> <<>>,
     integration |-> <<>>, secret |-> <<>>]

\* The columns of a board row that an insert naming only id, name and ownerId
\* leaves to their defaults.
BoardDefaults ==
    [allowGuests |-> FALSE, isLeftSidebarVisible |-> FALSE, isRightSidebarVisible |-> FALSE,
     isPingEnabled |-> FALSE, appOpacity |-> 100, backgroundImageUrl |-> Null,
     primaryColor |-> "red", secondaryColor |-> "orange", customCss |-> Null,
     pageTitle |-> Null, metaTitle |-> Null, logoImageUrl |-> Null,
     faviconImageUrl |-> Null, primaryShade |-> 6]

CustomizationColumns == DOMAIN BoardDefaults

\* A row with the named columns removed ({ a, ...rest } = row).
Without(row, cols) == [c \in (DOMAIN row) \ cols |-> row[c]]

\* The rows of a table that pass a test, in table order.
Where(rows, Test(_)) == SelectSeq(rows, Test)

Map(rows, F(_)) == [i \in 1..Len(rows) |-> F(rows[i])]

Range(rows) == {rows[i] : i \in 1..Len(rows)}

\* findFirst: the first row that passes, as a list of at most one row.
First(rows) == IF rows = <<>> THEN <<>> ELSE <<rows[1]>>

\* ORDER BY position: ascending, NULL first, rows of equal position in table order.
PositionKey(section) == IF section.position.null THEN -1 ELSE section.position.n

RECURSIVE insertByPosition(_, _)
insertByPosition(sorted, section) ==
    IF sorted = <<>> THEN <<section>>
    ELSE IF PositionKey(section) < PositionKey(Head(sorted)) THEN <<section>> \o sorted
    ELSE <<Head(sorted)>> \o insertByPosition(Tail(sorted), section)

RECURSIVE orderByPosition(_)
orderByPosition(rows) ==
    IF rows = <<>> THEN <<>>
    ELSE insertByPosition(orderByPosition(SubSeq(rows, 1, Len(rows) - 1)), rows[Len(rows)])

\* The sections relation of a layout row.
SectionsOf(d, layout) ==
    orderByPosition(Where(d.section, LAMBDA s : s.layoutId = layout.id))

\* Mutant of LayoutsOf: every layout of the board, whatever its name.
LayoutsOfAnyName(d, board, layoutName) ==
    Map(Where(d.layout, LAMBDA l : l.boardId = board.id),
        LAMBDA l : [name |-> l.name, sections |-> SectionsOf(d, l)])

\* The layouts relation of a board row, restricted to the layout name.
LayoutsOf(d, board, layoutName) ==
    Map(Where(d.layout, LAMBDA l : l.boardId = board.id /\ l.name = layoutName),
        LAMBDA l : [name |-> l.name, sections |-> SectionsOf(d, l)])

getFullBoardWithLayoutSectionsAsync(d, boardName, layoutName) ==
    Map(First(Where(d.board, LAMBDA b : b.name = boardName)),
        LAMBDA b : Without(b, {"ownerId"})
                   @@ [owner |-> [id |-> b.ownerId],
                       layouts |-> LayoutsOf(d, b, layoutName)])

\* item: { with: { layouts: { where: inArray(layoutItems.sectionId, sectionIds) } } }
ItemWithLayouts(d, itemId, sectionIds) ==
    LET item == CHOOSE i \in Range(d.item) : i.id = itemId
    IN  item @@ [layouts |-> Where(d.layoutItem,
                                   LAMBDA l : l.itemId = itemId /\ l.sectionId \in sectionIds)]

\* app: { with: { integration: { with: { secrets: true } }, statusCodes } }
IntegrationOf(d, app) ==
    Map(Where(d.integration,
              LAMBDA g : ~app.integrationId.null /\ g.id = app.integrationId.n),
        LAMBDA g : g @@ [secrets |-> Where(d.secret, LAMBDA x : x.integrationId = g.id)])

AppWithRelations(d, appId) ==
    LET app == CHOOSE a \in Range(d.app) : a.id = appId
    IN  Without(app, {"integrationId"})
        @@ [integration |-> IntegrationOf(d, app), statusCodes |-> <<>>]

getAppsForSectionsAsync(d, sectionIds) ==
    IF sectionIds = <<>> THEN <<>>
    ELSE Map(d.appItem,
             LAMBDA ai : ai @@ [app |-> AppWithRelations(d, ai.appId),
                                item |-> ItemWithLayouts(d, ai.itemId, Range(sectionIds))])

getWidgetsForSectionsAsync(d, sectionIds) ==
    IF sectionIds = <<>> THEN <<>>
    ELSE Map(d.widget,
             LAMBDA w : w @@ [options |-> Where(d.option, LAMBDA o : o.widgetId = w.id),
                              item |-> ItemWithLayouts(d, w.itemId, Range(sectionIds))])

(***************************************************************************)
(* The mappers.  A later spread overrides an earlier one: { ...a, ...b }   *)
(* is b @@ a.  A nullable relation (integration) is a list of at most one. *)
(***************************************************************************)
TypeError == [status |-> "error", code |-> "INTERNAL_SERVER_ERROR", message |-> "TypeError"]

NotFound(message) == [status |-> "error", code |-> "NOT_FOUND", message |-> message]

Ok(value) == [status |-> "ok", value |-> value]

\* Mutant of mapSecret: the stored value is passed on whatever the visibility.
mapSecretWithValue(secret) ==
    [isDefined |-> secret.value # Null /\ secret.value # ""]
    @@ Without(secret, {"integrationId"})

mapSecret(secret) ==
    LET rest == Without(secret, {"integrationId"})
        isDefined == rest.value # Null /\ rest.value # ""
    IN  IF rest.visibility = "private"
        THEN [visibility |-> "private", isDefined |-> isDefined, value |-> Null] @@ rest
        ELSE [visibility |-> "public", isDefined |-> isDefined] @@ rest

\* The position of a mapped section: a number, null, 'left' or 'right'.
Position(k, n) == [k |-> k, n |-> n]

NonNull(position) ==
    IF position.null THEN Position("null", 0) ELSE Position("number", position.n)

mapSection(section, items) ==
    LET sectionProps == Without(section, {"layoutId", "name", "position", "type"})
    IN  CASE section.type = "empty" ->
               [type |-> section.type, position |-> NonNull(section.position),
                items |-> items] @@ sectionProps
          [] section.type = "hidden" ->
               [type |-> section.type, position |-> Position("null", 0),
                items |-> items] @@ sectionProps
          [] section.type = "category" ->
               [type |-> section.type, name |-> section.name,
                position |-> NonNull(section.position), items |-> items] @@ sectionProps
          [] OTHER ->
               [type |-> section.type,
                position |-> IF ~section.position.null /\ section.position.n = 0
                             THEN Position("left", 0) ELSE Position("right", 0),
                items |-> items] @@ sectionProps

\* const { sectionId, itemId, id, ...commonLayoutItem } = x.item.layouts.at(0)!
\* and { ...commonLayoutItem, id: itemId }; destructuring undefined throws.
Common(layouts) ==
    [id |-> layouts[1].itemId] @@ Without(layouts[1], {"sectionId", "itemId", "id"})

mapWidget(widgetItem) ==
    IF widgetItem.item.layouts = <<>> THEN TypeError
    ELSE LET widget == Without(widgetItem, {"id", "itemId", "type", "item"})
             opts == mapOptions(widget.options)
         IN  IF opts.thrown THEN TypeError
             ELSE [type |-> "widget", sort |-> widgetItem.type, options |-> opts.obj]
                  @@ widget @@ Common(widgetItem.item.layouts)

mapApp(appItem) ==
    IF appItem.item.layouts = <<>> THEN TypeError
    ELSE LET otherAppItem == Without(appItem, {"app", "appId", "itemId", "item"})
             app == Without(appItem.app, {"id", "integration", "statusCodes"})
         IN  [type |-> "app",
              integration |-> Map(appItem.app.integration,
                                  LAMBDA g : [secrets |-> Map(g.secrets, mapSecret)] @@ g),
              statusCodes |-> appItem.app.statusCodes]
             @@ app @@ otherAppItem @@ Common(appItem.item.layouts)

\* Mutant of InSection: any layout row of the item, whatever its section.
InSectionOfAnySection(x, section) == x.item.layouts # <<>>

\* x.item.layouts.some((y) => y.sectionId === section.id)
InSection(x, section) ==
    \E i \in 1..Len(x.item.layouts) : x.item.layouts[i].sectionId = section.id

\* layout.sections.map(...) of byName.
PreparedSections(layout, apps, widgets) ==
    Map(layout.sections,
        LAMBDA section :
            mapSection(section,
                       Map(Where(apps, LAMBDA x : InSection(x, section)), mapApp)
                       \o Map(Where(widgets, LAMBDA x : InSection(x, section)), mapWidget)))

Thrown(sections) ==
    \E i \in 1..Len(sections) :
        \E j \in 1..Len(sections[i].items) : sections[i].items[j] = TypeError

\* What byName returns from the rows it has read.
ByNameResult(board, apps, widgets) ==
    LET preparedSections == PreparedSections(board.layouts[1], apps, widgets)
    IN  IF Thrown(preparedSections) THEN TypeError
        ELSE Ok([sections |-> preparedSections] @@ Without(board, {"layouts"}))

(***************************************************************************)
(* The schema's constraints on an insert: primary keys, one board per      *)
(* name, one layout per name and board.                                    *)
(***************************************************************************)
\* Mutant of InsertAllowed: a schema with primary keys only.
InsertAllowedByKey(d, table, row) ==
    "id" \in DOMAIN row => \A r \in Range(d[table]) : r.id # row.id

InsertAllowed(d, table, row) ==
    /\ "id" \in DOMAIN row => \A r \in Range(d[table]) : r.id # row.id
    /\ table = "board" => \A r \in Range(d.board) : r.name # row.name
    /\ table = "layout" =>
           \A r \in Range(d.layout) : ~(r.boardId = row.boardId /\ r.name = row.name)

\* db.insert(table).values(row), the constraints passed.
Insert(d, table, row) == [d EXCEPT ![table] = Append(@, row)]

(***************************************************************************)
(* exampleBoard: its inserts in order, each its own awaited statement.  A  *)
(* randomUUID() is a fresh value: the k-th one of request c is Id(c, k).   *)
(***************************************************************************)
Id(c, k) == c * 100 + k

SessionUserId == "admin"

ExampleApps ==
    << [name |-> "Contribute", internalUrl |-> "https://github.com/ajnart/homarr",
        iconUrl |-> "https://cdn.jsdelivr.net/gh/walkxcode/dashboard-icons@master/png/github.png",
        width |-> 2, height |-> 1, x |-> 2, y |-> 0],
       [name |-> "Discord", internalUrl |-> "https://discord.com/invite/aCsmEV5RgA",
        iconUrl |-> "https://cdn.jsdelivr.net/gh/walkxcode/dashboard-icons@master/png/discord.png",
        width |-> 2, height |-> 1, x |-> 4, y |-> 0],
       [name |-> "Donate", internalUrl |-> "https://ko-fi.com/ajnart",
        iconUrl |-> "https://cdn.jsdelivr.net/gh/walkxcode/dashboard-icons@master/png/ko-fi.png",
        width |-> 2, height |-> 1, x |-> 6, y |-> 0],
       [name |-> "Documentation", internalUrl |-> "https://homarr.dev",
        iconUrl |-> "/imgs/logo/logo.png",
        width |-> 2, height |-> 2, x |-> 6, y |-> 1] >>

ExampleWidgets ==
    << [type |-> "weather", width |-> 2, height |-> 1, x |-> 0, y |-> 0],
       [type |-> "date", width |-> 2, height |-> 1, x |-> 8, y |-> 0],
       [type |-> "date", width |-> 2, height |-> 1, x |-> 8, y |-> 1],
       [type |-> "notebook", width |-> 6, height |-> 3, x |-> 0, y |-> 1] >>

Stmt(table, row) == [table |-> table, row |-> row]

\* Mutant of addApp: the layout row takes width for height and height for width.
addAppTurned(c, k, boardId, sectionId, props) ==
    << Stmt("item", [id |-> Id(c, k), type |-> "app", boardId |-> boardId]),
       Stmt("app", [id |-> Id(c, k + 1), integrationId |-> SqlNull]
                   @@ Without(props, {"width", "height", "x", "y"})),
       Stmt("appItem", [appId |-> Id(c, k + 1), itemId |-> Id(c, k)]),
       Stmt("layoutItem", [id |-> Id(c, k + 2), itemId |-> Id(c, k), sectionId |-> sectionId,
                           width |-> props.height, height |-> props.width]
                          @@ Without(props, {"name", "internalUrl", "iconUrl"})) >>

\* addApp with the three ids it draws being Id(c, k), Id(c, k + 1), Id(c, k + 2).
addApp(c, k, boardId, sectionId, props) ==
    << Stmt("item", [id |-> Id(c, k), type |-> "app", boardId |-> boardId]),
       Stmt("app", [id |-> Id(c, k + 1), integrationId |-> SqlNull]
                   @@ Without(props, {"width", "height", "x", "y"})),
       Stmt("appItem", [appId |-> Id(c, k + 1), itemId |-> Id(c, k)]),
       Stmt("layoutItem", [id |-> Id(c, k + 2), itemId |-> Id(c, k), sectionId |-> sectionId]
                          @@ Without(props, {"name", "internalUrl", "iconUrl"})) >>

addWidget(c, k, boardId, sectionId, props) ==
    << Stmt("item", [id |-> Id(c, k), type |-> "widget", boardId |-> boardId]),
       Stmt("widget", [id |-> Id(c, k + 1), type |-> props.type, itemId |-> Id(c, k)]),
       Stmt("layoutItem", [id |-> Id(c, k + 2), itemId |-> Id(c, k), sectionId |-> sectionId]
                          @@ Without(props, {"type"})) >>

exampleBoard(c, boardName) ==
    LET boardId == Id(c, 1)
        layoutId == Id(c, 2)
        sectionId == Id(c, 3)
    IN  << Stmt("board", [id |-> boardId, name |-> boardName, ownerId |-> SessionUserId]
                         @@ BoardDefaults),
           Stmt("layout", [id |-> layoutId, name |-> "default", boardId |-> boardId]),
           Stmt("section", [id |-> sectionId, layoutId |-> layoutId, type |-> "empty",
                            position |-> SqlInt(0), name |-> Null]) >>
        \o addApp(c, 4, boardId, sectionId, ExampleApps[1])
        \o addApp(c, 7, boardId, sectionId, ExampleApps[2])
        \o addApp(c, 10, boardId, sectionId, ExampleApps[3])
        \o addApp(c, 13, boardId, sectionId, ExampleApps[4])
        \o addWidget(c, 16, boardId, sectionId, ExampleWidgets[1])
        \o addWidget(c, 19, boardId, sectionId, ExampleWidgets[2])
        \o addWidget(c, 22, boardId, sectionId, ExampleWidgets[3])
        \o addWidget(c, 25, boardId, sectionId, ExampleWidgets[4])

MaxCalls == 2

BoardNames == {"home", "lab"}

NotCalled == [status |-> "idle", boardName |-> Null, done |-> 0]

InFlight == {c \in 1..MaxCalls : ex[c].status = "running"}

\* One awaited insert of request c: the row is stored, or the constraint's
\* error ends the request there.
RunInsert(c, boardName, k) ==
    LET stmt == exampleBoard(c, boardName)[k]
        last == k = Len(exampleBoard(c, boardName))
    IN  IF InsertAllowed(db, stmt.table, stmt.row)
        THEN /\ db' = Insert(db, stmt.table, stmt.row)
             /\ ex' = [ex EXCEPT ![c] = [status |-> IF last THEN "done" ELSE "running",
                                         boardName |-> boardName, done |-> k]]
        ELSE /\ db' = db
             /\ ex' = [ex EXCEPT ![c] = [status |-> "failed", boardName |-> boardName,
                                         done |-> k - 1]]

\* The request arrives: the handler runs up to its first insert.  The requests
\* are numbered in the order they arrive, and one is in flight at a time.
ExampleBoard(c, boardName) ==
    /\ ex[c].status = "idle"
    /\ \A b \in 1..(c - 1) : ex[b].status # "idle"
    /\ InFlight = {}
    /\ RunInsert(c, boardName, 1)
    /\ UNCHANGED <<configs, call, optVars>>

\* The handler resumes after an await and issues its next insert.
ExampleBoardStep(c) ==
    /\ ex[c].status = "running"
    /\ RunInsert(c, ex[c].boardName, ex[c].done + 1)
    /\ UNCHANGED <<configs, call, optVars>>

(***************************************************************************)
(* The other handlers.  One request is served at a time beside the         *)
(* exampleBoard requests; a handler that awaits between two statements is  *)
(* one action per statement.                                               *)
(***************************************************************************)
RequestNames == {"home", "ghost"}

LayoutInputs == {Undefined, "mobile"}

NoCall == [op |-> "none", pc |-> "done"]

Done(op, input, result) == [op |-> op, pc |-> "done", input |-> input, result |-> result]

\* byName on a database that no other request changes under it.
byName(d, boardName, layout) ==
    LET board == getFullBoardWithLayoutSectionsAsync(
                     d, boardName, IF layout = Undefined THEN "default" ELSE layout)
    IN  IF board = <<>> THEN NotFound("Board not found")
        ELSE IF board[1].layouts = <<>> THEN NotFound("Layout not found")
        ELSE LET sectionIds == Map(board[1].layouts[1].sections, LAMBDA x : x.id)
             IN  ByNameResult(board[1], getAppsForSectionsAsync(d, sectionIds),
                              getWidgetsForSectionsAsync(d, sectionIds))

\* The board names whose exampleBoard request has returned.
Completed == {ex[c].boardName : c \in {b \in DOMAIN ex : ex[b].status = "done"}}

\* byName up to its first query and the two checks on what it returned.
\* completed notes, for the record, what had returned when the request arrived.
ByName(boardName, layout) ==
    LET input == [boardName |-> boardName, layout |-> layout]
        board == getFullBoardWithLayoutSectionsAsync(
                     db, boardName, IF layout = Undefined THEN "default" ELSE layout)
    IN  /\ call.pc = "done"
        /\ call' = [completed |-> Completed]
                   @@ IF board = <<>>
                      THEN Done("byName", input, NotFound("Board not found"))
                      ELSE IF board[1].layouts = <<>>
                      THEN Done("byName", input, NotFound("Layout not found"))
                      ELSE [op |-> "byName", pc |-> "apps", input |-> input,
                            board |-> board[1]]
        /\ UNCHANGED <<db, configs, ex, optVars>>

SectionIds(board) == Map(board.layouts[1].sections, LAMBDA x : x.id)

\* const apps = await getAppsForSectionsAsync(sectionIds)
ByNameApps ==
    /\ call.op = "byName" /\ call.pc = "apps"
    /\ call' = [pc |-> "widgets", apps |-> getAppsForSectionsAsync(db, SectionIds(call.board))]
               @@ call
    /\ UNCHANGED <<db, configs, ex, optVars>>

\* const widgets = await getWidgetsForSectionsAsync(sectionIds), and the rest.
ByNameWidgets ==
    /\ call.op = "byName" /\ call.pc = "widgets"
    /\ call' = [completed |-> call.completed]
               @@ Done("byName", call.input,
                       ByNameResult(call.board, call.apps,
                                    getWidgetsForSectionsAsync(db, SectionIds(call.board))))
    /\ UNCHANGED <<db, configs, ex, optVars>>

ByNameSimple(boardName) ==
    LET board == First(Where(db.board, LAMBDA b : b.name = boardName))
    IN  /\ call.pc = "done"
        /\ call' = Done("byNameSimple", [boardName |-> boardName],
                        IF board = <<>> THEN NotFound("Board not found") ELSE Ok(board[1]))
        /\ UNCHANGED <<db, configs, ex, optVars>>

\* The two inputs of updateCustomization: between them every column tells
\* itself from every other column of its type.
Customizations ==
    { [access |-> [allowGuests |-> TRUE],
       layout |-> [leftSidebarEnabled |-> FALSE, rightSidebarEnabled |-> TRUE,
                   pingsEnabled |-> FALSE],
       appearance |-> [opacity |-> 50, backgroundSrc |-> "bg1.png", primaryColor |-> "blue",
                       secondaryColor |-> "teal", customCss |-> "a{}", shade |-> 3],
       pageMetadata |-> [pageTitle |-> "Home", metaTitle |-> "Home meta",
                         logoSrc |-> "logo1.png", faviconSrc |-> "fav1.ico"]],
      [access |-> [allowGuests |-> FALSE],
       layout |-> [leftSidebarEnabled |-> FALSE, rightSidebarEnabled |-> TRUE,
                   pingsEnabled |-> TRUE],
       appearance |-> [opacity |-> 0, backgroundSrc |-> "", primaryColor |-> "green",
                       secondaryColor |-> "lime", customCss |-> "", shade |-> 9],
       pageMetadata |-> [pageTitle |-> "", metaTitle |-> "Meta 2",
                         logoSrc |-> "logo2.png", faviconSrc |-> "fav2.ico"]] }

\* The .set({...}) of updateCustomization.
CustomizationSet(customization) ==
    [allowGuests |-> customization.access.allowGuests,
     isLeftSidebarVisible |-> customization.layout.leftSidebarEnabled,
     isRightSidebarVisible |-> customization.layout.rightSidebarEnabled,
     isPingEnabled |-> customization.layout.pingsEnabled,
     appOpacity |-> customization.appearance.opacity,
     backgroundImageUrl |-> customization.appearance.backgroundSrc,
     primaryColor |-> customization.appearance.primaryColor,
     secondaryColor |-> customization.appearance.secondaryColor,
     customCss |-> customization.appearance.customCss,
     pageTitle |-> customization.pageMetadata.pageTitle,
     metaTitle |-> customization.pageMetadata.metaTitle,
     logoImageUrl |-> customization.pageMetadata.logoSrc,
     faviconImageUrl |-> customization.pageMetadata.faviconSrc,
     primaryShade |-> customization.appearance.shade]

\* Mutant of UpdateBoards: the update without its where clause.
UpdateBoardsAll(d, values, id) ==
    [d EXCEPT !.board = Map(d.board, LAMBDA b : values @@ b)]

\* db.update(boards).set(values).where(eq(boards.id, id))
UpdateBoards(d, values, id) ==
    [d EXCEPT !.board = Map(d.board, LAMBDA b : IF b.id = id THEN values @@ b ELSE b)]

\* updateCustomization up to its findFirst and the check on it.
UpdateCustomization(boardName, customization) ==
    LET input == [boardName |-> boardName, customization |-> customization]
        dbBoard == First(Where(db.board, LAMBDA b : b.name = boardName))
    IN  /\ call.pc = "done"
        /\ call' = IF dbBoard = <<>>
                   THEN Done("updateCustomization", input, NotFound("Board not found"))
                   ELSE [op |-> "updateCustomization", pc |-> "update", input |-> input,
                         dbBoard |-> dbBoard[1]]
        /\ UNCHANGED <<db, configs, ex, optVars>>

\* The awaited update, and the return of the row as it was found.
UpdateCustomizationSet ==
    /\ call.op = "updateCustomization" /\ call.pc = "update"
    /\ db' = UpdateBoards(db, CustomizationSet(call.input.customization), call.dbBoard.id)
    /\ call' = Done("updateCustomization", call.input, Ok(call.dbBoard))
    /\ UNCHANGED <<configs, ex, optVars>>

(***************************************************************************)
(* addAppsForContainers.  A config file is held as the JSON value it       *)
(* parses to.  A text built by a template is the list of its pieces.       *)
(***************************************************************************)
configExists(name) == name \in DOMAIN configs

getConfig(name) == configs[name]

NoPort == [given |-> FALSE, n |-> 0]

Port(n) == [given |-> TRUE, n |-> n]

\* The truthiness of container.port: undefined and 0 are falsy.
Truthy(port) == port.given /\ port.n # 0

generateDefaultApp(wrapperId, id) ==
    [id |-> id, name |-> "Your app", url |-> <<"https://homarr.dev">>,
     behaviour |-> [externalUrl |-> <<"https://homarr.dev">>, isOpeningNewTab |-> TRUE],
     area |-> [type |-> "wrapper", properties |-> [id |-> wrapperId]]]

\* wrappers.sort((a, b) => a.position - b.position): stable, and in place.
RECURSIVE insertWrapper(_, _)
insertWrapper(sorted, w) ==
    IF sorted = <<>> THEN <<w>>
    ELSE IF w.position < Head(sorted).position THEN <<w>> \o sorted
    ELSE <<Head(sorted)>> \o insertWrapper(Tail(sorted), w)

RECURSIVE sortWrappers(_)
sortWrappers(wrappers) ==
    IF wrappers = <<>> THEN <<>>
    ELSE insertWrapper(sortWrappers(SubSeq(wrappers, 1, Len(wrappers) - 1)),
                       wrappers[Len(wrappers)])

\* The app built for one container; the app's id is a fresh one.
ContainerApp(lowestWrapper, container, id) ==
    LET defaultApp == generateDefaultApp(lowestWrapper.id, id)
        address == IF Truthy(container.port)
                   THEN <<"http://localhost:">> \o NatToStr(container.port.n)
                   ELSE <<"http://localhost">>
    IN  [name |-> container.name, url |-> address,
         behaviour |-> [externalUrl |-> address] @@ defaultApp.behaviour] @@ defaultApp

\* newConfig of addAppsForContainers, config.wrappers having been sorted in place.
NewConfig(config, apps) ==
    LET sorted == sortWrappers(config.wrappers)
    IN  [apps |-> config.apps
                  \o [i \in 1..Len(apps) |->
                         ContainerApp(sorted[1], apps[i], Id(Len(config.apps) + i, 0))],
         wrappers |-> sorted] @@ config

MaxConfigApps == 3

addAppsForContainers(boardName, apps) ==
    LET input == [boardName |-> boardName, apps |-> apps]
    IN  /\ call.pc = "done"
        /\ IF ~configExists(boardName)
           THEN /\ call' = Done("addAppsForContainers", input, NotFound("Board not found"))
                /\ configs' = configs
           ELSE IF getConfig(boardName).wrappers = <<>> /\ apps # <<>>
           THEN \* lowestWrapper is undefined: lowestWrapper.id throws
                /\ call' = Done("addAppsForContainers", input, TypeError)
                /\ configs' = configs
           ELSE /\ Len(getConfig(boardName).apps) + Len(apps) <= MaxConfigApps
                /\ call' = Done("addAppsForContainers", input, Ok(Null))
                /\ configs' = (boardName :> NewConfig(getConfig(boardName), apps)) @@ configs
        /\ UNCHANGED <<db, ex, optVars>>

(***************************************************************************)
(* Specification Spec: from an empty database, exampleBoard requests run   *)
(* insert by insert beside byName and updateCustomization requests.        *)
(***************************************************************************)
HomeConfig(wrappers) ==
    [schemaVersion |-> 1, configProperties |-> [name |-> "home"],
     categories |-> <<>>, wrappers |-> wrappers,
     apps |-> <<generateDefaultApp("w0", 1)>>, widgets |-> <<>>]

Wrapper(id, position) == [id |-> id, position |-> position]

Init ==
    /\ db = EmptyDb
    /\ configs = ("home" :> HomeConfig(<<Wrapper("w0", 0)>>))
    /\ ex = [c \in 1..MaxCalls |-> NotCalled]
    /\ call = NoCall
    /\ original = JNull
    /\ options = NotQueried
    /\ mapped = NotMapped

Next ==
    \/ \E c \in 1..MaxCalls, boardName \in BoardNames : ExampleBoard(c, boardName)
    \/ \E c \in 1..MaxCalls : ExampleBoardStep(c)
    \/ \E boardName \in RequestNames, layout \in LayoutInputs : ByName(boardName, layout)
    \/ ByNameApps
    \/ ByNameWidgets
    \/ \E boardName \in RequestNames, customization \in Customizations :
           UpdateCustomization(boardName, customization)
    \/ UpdateCustomizationSet

Spec == Init /\ [][Next]_vars

(***************************************************************************)
(* Specification SpecRows: the handlers other than exampleBoard on boards  *)
(* that the rest of the application has filled: two boards, three layouts, *)
(* sections of every type, apps with and without an integration, widgets   *)
(* with options, and any subset of the layout-item rows below; and on a    *)
(* config file whose wrappers are in order, out of order or missing.       *)
(***************************************************************************)
LayoutItem(id, itemId, sectionId, x, y, width, height) ==
    [id |-> id, itemId |-> itemId, sectionId |-> sectionId,
     x |-> x, y |-> y, width |-> width, height |-> height]

LayoutItemRows ==
    << LayoutItem(61, 31, 22, 2, 0, 2, 1),
       LayoutItem(62, 31, 21, 0, 0, 1, 1),
       LayoutItem(63, 31, 25, 0, 1, 3, 3),
       LayoutItem(64, 32, 21, 1, 0, 1, 2),
       LayoutItem(65, 33, 22, 4, 0, 4, 2),
       LayoutItem(66, 33, 23, 0, 2, 1, 4),
       LayoutItem(67, 34, 26, 0, 0, 1, 1) >>

Section(id, layoutId, type, position, name) ==
    [id |-> id, layoutId |-> layoutId, type |-> type, position |-> position, name |-> name]

Secret(key, visibility, value) ==
    [integrationId |-> 51, key |-> key, visibility |-> visibility, value |-> value]

FilledDb(layoutItemIds) ==
    [board |->
        << [id |-> 1, name |-> "home", ownerId |-> SessionUserId]
           @@ [isLeftSidebarVisible |-> TRUE, appOpacity |-> 80, pageTitle |-> "Old"]
           @@ BoardDefaults,
           [id |-> 2, name |-> "lab", ownerId |-> "guest"] @@ BoardDefaults >>,
     layout |->
        << [id |-> 11, name |-> "default", boardId |-> 1],
           [id |-> 12, name |-> "mobile", boardId |-> 1],
           [id |-> 13, name |-> "mobile", boardId |-> 2] >>,
     section |->
        << Section(21, 11, "category", SqlInt(1), "Apps"),
           Section(22, 11, "empty", SqlInt(0), Null),
           Section(23, 11, "sidebar", SqlInt(1), Null),
           Section(24, 11, "hidden", SqlNull, Null),
           Section(25, 12, "empty", SqlInt(0), Null),
           Section(26, 13, "sidebar", SqlInt(0), Null) >>,
     item |->
        << [id |-> 31, type |-> "app", boardId |-> 1],
           [id |-> 32, type |-> "app", boardId |-> 1],
           [id |-> 33, type |-> "widget", boardId |-> 1],
           [id |-> 34, type |-> "widget", boardId |-> 2] >>,
     app |->
        << [id |-> 41, name |-> "Plex", internalUrl |-> "http://plex", iconUrl |-> "plex.png",
            integrationId |-> SqlInt(51)],
           [id |-> 42, name |-> "Wiki", internalUrl |-> "http://wiki", iconUrl |-> "wiki.png",
            integrationId |-> SqlNull] >>,
     appItem |-> << [appId |-> 41, itemId |-> 31], [appId |-> 42, itemId |-> 32] >>,
     widget |->
        << [id |-> 43, type |-> "calendar", itemId |-> 33],
           [id |-> 44, type |-> "clock", itemId |-> 34] >>,
     option |->
        << [widgetId |-> 43] @@ Row(<<"a", ".", "b">>, "number", <<"1">>),
           [widgetId |-> 43] @@ Row(<<"a">>, "object", <<>>) >>,
     layoutItem |-> Where(LayoutItemRows, LAMBDA l : l.id \in layoutItemIds),
     integration |-> << [id |-> 51, type |-> "plex", name |-> "Plex server"] >>,
     secret |->
        << Secret("apiKey", "private", "s3cret"),
           Secret("username", "public", "admin"),
           Secret("password", "private", ""),
           Secret("token", "private", Null),
           Secret("note", "public", Null) >>]

WrapperLists ==
    { <<Wrapper("w0", 0), Wrapper("w1", 1)>>,
      <<Wrapper("w1", 1), Wrapper("w0", 0)>>,
      <<>> }

Container(name, port) == [name |-> name, port |-> port]

ContainerLists ==
    { <<>>,
      <<Container("nginx", Port(80))>>,
      <<Container("db", NoPort)>>,
      <<Container("zero", Port(0))>>,
      <<Container("nginx", Port(80)), Container("db", NoPort)>> }

\* The layout-item rows every filled database holds, and those it may hold.
FixedLayoutItems == {63, 64, 67}

FreeLayoutItems == {61, 62, 65, 66}

InitRows ==
    /\ \E ids \in SUBSET FreeLayoutItems : db = FilledDb(FixedLayoutItems \cup ids)
    /\ \E wrappers \in WrapperLists : configs = ("home" :> HomeConfig(wrappers))
    /\ ex = [c \in 1..MaxCalls |-> NotCalled]
    /\ call = NoCall
    /\ original = JNull
    /\ options = NotQueried
    /\ mapped = NotMapped

NextRows ==
    \/ \E boardName \in RequestNames, layout \in LayoutInputs \cup {"tablet"} :
           ByName(boardName, layout)
    \/ ByNameApps
    \/ ByNameWidgets
    \/ \E boardName \in RequestNames : ByNameSimple(boardName)
    \/ \E boardName \in RequestNames, customization \in Customizations :
           UpdateCustomization(boardName, customization)
    \/ UpdateCustomizationSet
    \/ \E boardName \in RequestNames, apps \in ContainerLists :
           addAppsForContainers(boardName, apps)

SpecRows == InitRows /\ [][NextRows]_vars

(***************************************************************************)
(* The claims                                                              *)
(***************************************************************************)
Finished(op) == call.op = op /\ call.pc = "done"

Returned(op) == Finished(op) /\ call.result.status = "ok"

RequestedLayout(input) == IF input.layout = Undefined THEN "default" ELSE input.layout

BoardRows(boardName) == {b \in Range(db.board) : b.name = boardName}

LayoutRows(boardName, layoutName) ==
    {l \in Range(db.layout) :
        l.name = layoutName /\ \E b \in BoardRows(boardName) : l.boardId = b.id}

SectionRows(boardName, layoutName) ==
    {x \in Range(db.section) : \E l \in LayoutRows(boardName, layoutName) : x.layoutId = l.id}

\* The items that are an app or a widget and have a layout-item row in the section.
LinkedItems(sectionId) ==
    {l.itemId : l \in {r \in Range(db.layoutItem) :
                         /\ r.sectionId = sectionId
                         /\ \/ \E a \in Range(db.appItem) : a.itemId = r.itemId
                            \/ \E w \in Range(db.widget) : w.itemId = r.itemId}}

\* C2: byName on an existing board and layout returns the sections of exactly
\* that layout in ascending position order, each with exactly the apps and
\* widgets that have a layout-item row of that section, each once; no mapper
\* is applied to an item without a layout row among the rows read for it.
C2_SectionsAndItemsExact ==
    Finished("byName")
    /\ LayoutRows(call.input.boardName, RequestedLayout(call.input)) # {} =>
        /\ call.result.status = "ok"
        /\ LET sections == call.result.value.sections
               rows == SectionRows(call.input.boardName, RequestedLayout(call.input))
               RowOf(i) == CHOOSE x \in rows : x.id = sections[i].id
           IN  /\ {sections[i].id : i \in 1..Len(sections)} = {x.id : x \in rows}
               /\ Len(sections) = Cardinality(rows)
               /\ \A i, j \in 1..Len(sections) :
                      i < j => PositionKey(RowOf(i)) <= PositionKey(RowOf(j))
               /\ \A i \in 1..Len(sections) :
                      LET items == sections[i].items
                      IN  /\ {items[j].id : j \in 1..Len(items)} = LinkedItems(sections[i].id)
                          /\ Len(items) = Cardinality(LinkedItems(sections[i].id))

\* A layout of four sections is returned, one section with two items, while
\* an item of the board has no row in any of the sections.
C2_Witness ==
    /\ Returned("byName")
    /\ Len(call.result.value.sections) = 4
    /\ \E i \in 1..4 : Len(call.result.value.sections[i].items) = 2
    /\ \E it \in Range(db.item) :
           /\ it.boardId = call.result.value.id
           /\ \A i \in 1..4 : it.id \notin LinkedItems(call.result.value.sections[i].id)

\* C7: every item byName returns in a section carries the x, y, width and
\* height of the layout-item row that links it to that section.
C7_GeometryOfOwnSection ==
    Returned("byName") =>
        \A i \in 1..Len(call.result.value.sections) :
            LET section == call.result.value.sections[i]
            IN  \A j \in 1..Len(section.items) :
                    \E l \in Range(db.layoutItem) :
                        /\ l.itemId = section.items[j].id /\ l.sectionId = section.id
                        /\ l.x = section.items[j].x /\ l.y = section.items[j].y
                        /\ l.width = section.items[j].width
                        /\ l.height = section.items[j].height

\* The secrets of the apps byName returned, each with the id of its integration.
ReturnedSecrets ==
    UNION {UNION {UNION {{[integrationId |-> item.integration[g].id,
                           secret |-> item.integration[g].secrets[k]] :
                             k \in 1..Len(item.integration[g].secrets)} :
                         g \in 1..Len(item.integration)} :
                  item \in {x \in Range(section.items) : x.type = "app"}} :
           section \in Range(call.result.value.sections)}

IsSet(value) == value # Null /\ value # ""

OtherSecretValues == {"s3cret", "hunter2"}

\* The databases that differ from db only in the non-empty values of private secrets.
SecretVariants ==
    LET hidden == {i \in 1..Len(db.secret) :
                      db.secret[i].visibility = "private" /\ IsSet(db.secret[i].value)}
    IN  {[db EXCEPT !.secret = [i \in 1..Len(db.secret) |->
                                   IF i \in hidden
                                   THEN [db.secret[i] EXCEPT !.value = f[i]]
                                   ELSE db.secret[i]]] :
            f \in [hidden -> OtherSecretValues]}

\* C10: byName returns a private secret with value null and isDefined true
\* exactly when a value is stored, a public secret with its stored value; and
\* the response is the same on every database that differs only in the
\* non-empty values of private secrets.
C10_PrivateSecretsHidden ==
    Returned("byName") =>
        /\ \A r \in ReturnedSecrets :
               \E stored \in Range(db.secret) :
                   /\ stored.integrationId = r.integrationId /\ stored.key = r.secret.key
                   /\ r.secret.visibility = stored.visibility
                   /\ r.secret.isDefined = IsSet(stored.value)
                   /\ r.secret.value = IF stored.visibility = "private" THEN Null
                                       ELSE stored.value
        /\ \A d \in SecretVariants :
               byName(d, call.input.boardName, call.input.layout) = call.result

\* A stored private secret was returned, and so was a public one with a value.
C10_Witness ==
    /\ Returned("byName")
    /\ \E r \in ReturnedSecrets : r.secret.visibility = "private" /\ r.secret.isDefined
    /\ \E r \in ReturnedSecrets : r.secret.visibility = "public" /\ r.secret.value = "admin"
    /\ Cardinality(SecretVariants) > 1

\* A request arrives: the step of a handler that starts from a served request.
Arrives(op) == call.pc = "done" /\ ex' = ex /\ call'.op = op

Refused(message) ==
    /\ call'.pc = "done" /\ call'.result = NotFound(message)
    /\ db' = db /\ configs' = configs

\* C3: byName, byNameSimple and updateCustomization on a name that no board row
\* has, and addAppsForContainers on a name without config file, fail with
\* NOT_FOUND 'Board not found' and change no row and no file; byName on a
\* board without a layout of the requested name (default 'default') fails
\* with NOT_FOUND 'Layout not found'.
C3_NotFoundChangesNothing ==
    [][ /\ \A op \in {"byName", "byNameSimple", "updateCustomization"} :
               Arrives(op) /\ BoardRows(call'.input.boardName) = {}
                   => Refused("Board not found")
        /\ Arrives("addAppsForContainers") /\ call'.input.boardName \notin DOMAIN configs
               => Refused("Board not found")
        /\ ( /\ Arrives("byName")
             /\ BoardRows(call'.input.boardName) # {}
             /\ LayoutRows(call'.input.boardName, RequestedLayout(call'.input)) = {} )
               => Refused("Layout not found") ]_vars

\* byName was refused for a layout the board does not have, after the board's
\* customization had been changed.
C3_Witness ==
    /\ Finished("byName")
    /\ call.result = NotFound("Layout not found")
    /\ call.input.layout = "tablet"
    /\ \E b \in BoardRows(call.input.boardName) : b.primaryColor = "blue"

\* The 14 customization columns of a board row hold the fields of an input.
HoldsCustomization(row, customization) ==
    /\ row.allowGuests = customization.access.allowGuests
    /\ row.isLeftSidebarVisible = customization.layout.leftSidebarEnabled
    /\ row.isRightSidebarVisible = customization.layout.rightSidebarEnabled
    /\ row.isPingEnabled = customization.layout.pingsEnabled
    /\ row.appOpacity = customization.appearance.opacity
    /\ row.backgroundImageUrl = customization.appearance.backgroundSrc
    /\ row.primaryColor = customization.appearance.primaryColor
    /\ row.secondaryColor = customization.appearance.secondaryColor
    /\ row.customCss = customization.appearance.customCss
    /\ row.primaryShade = customization.appearance.shade
    /\ row.pageTitle = customization.pageMetadata.pageTitle
    /\ row.metaTitle = customization.pageMetadata.metaTitle
    /\ row.logoImageUrl = customization.pageMetadata.logoSrc
    /\ row.faviconImageUrl = customization.pageMetadata.faviconSrc

\* C8: updateCustomization on an existing board sets the 14 customization
\* columns of the row with that board's id to the input's fields and leaves
\* the row's id, name and owner, every other board row, every other table and
\* the config files as they were; a byNameSimple for the board that follows
\* returns the new values.
C8_UpdateSetsOnlyCustomization ==
    [][ /\ (call.op = "updateCustomization" /\ call.pc = "update" /\ call'.pc = "done") =>
            /\ Len(db'.board) = Len(db.board)
            /\ \A i \in 1..Len(db.board) :
                   IF db.board[i].id = call.dbBoard.id
                   THEN /\ HoldsCustomization(db'.board[i], call.input.customization)
                        /\ db'.board[i].id = db.board[i].id
                        /\ db'.board[i].name = db.board[i].name
                        /\ db'.board[i].ownerId = db.board[i].ownerId
                        /\ DOMAIN db'.board[i] = DOMAIN db.board[i]
                   ELSE db'.board[i] = db.board[i]
            /\ \A table \in DOMAIN db \ {"board"} : db'[table] = db[table]
            /\ configs' = configs
        /\ ( /\ Returned("updateCustomization") /\ Arrives("byNameSimple")
             /\ call'.input.boardName = call.input.boardName ) =>
               /\ call'.result.status = "ok"
               /\ HoldsCustomization(call'.result.value, call.input.customization)
               /\ call'.result.value.id = call.result.value.id ]_vars

\* An update has changed the row it found, beside a board it must not touch.
C8_Witness ==
    /\ Returned("updateCustomization")
    /\ Len(db.board) = 2
    /\ \E b \in Range(db.board) :
           /\ b.id = call.result.value.id
           /\ HoldsCustomization(b, call.input.customization)
           /\ ~HoldsCustomization(call.result.value, call.input.customization)

\* 'http://localhost:<port>' when a port is given, else 'http://localhost'.
ContainerAddress(container) ==
    IF container.port.given
    THEN <<"http://localhost:">> \o NatToStr(container.port.n)
    ELSE <<"http://localhost">>

\* C9: addAppsForContainers on an existing config writes the existing apps in
\* their order, followed by one app per container in input order (name, url
\* and behaviour.externalUrl as ContainerAddress, placed in the wrapper of
\* lowest position), and every other field, the wrappers and their order
\* included, as it was read; for every input.
C9_AppendOnly ==
    [][ Arrives("addAppsForContainers") /\ call'.input.boardName \in DOMAIN configs =>
            LET old == configs[call'.input.boardName]
                new == configs'[call'.input.boardName]
                apps == call'.input.apps
            IN  /\ call'.result.status = "ok"
                /\ Len(new.apps) = Len(old.apps) + Len(apps)
                /\ SubSeq(new.apps, 1, Len(old.apps)) = old.apps
                /\ \A i \in 1..Len(apps) :
                       LET app == new.apps[Len(old.apps) + i]
                       IN  /\ app.name = apps[i].name
                           /\ app.url = ContainerAddress(apps[i])
                           /\ app.behaviour.externalUrl = ContainerAddress(apps[i])
                           /\ \E w \in Range(old.wrappers) :
                                  /\ app.area.properties.id = w.id
                                  /\ \A v \in Range(old.wrappers) : w.position <= v.position
                /\ \A field \in DOMAIN old \ {"apps"} : new[field] = old[field]
                /\ DOMAIN new = DOMAIN old
                /\ db' = db ]_vars

\* What C4 tells of an item: its type, its name (app) or sort (widget), and
\* its x, y, width and height.
Placed(item) ==
    <<item.type, IF item.type = "app" THEN item.name ELSE item.sort,
      item.x, item.y, item.width, item.height>>

Cells(item) ==
    {<<cx, cy>> : cx \in item.x..(item.x + item.width - 1),
                  cy \in item.y..(item.y + item.height - 1)}

TheExampleBoard ==
    { <<"app", "Contribute", 2, 0, 2, 1>>, <<"app", "Discord", 4, 0, 2, 1>>,
      <<"app", "Donate", 6, 0, 2, 1>>, <<"app", "Documentation", 6, 1, 2, 2>>,
      <<"widget", "weather", 0, 0, 2, 1>>, <<"widget", "date", 8, 0, 2, 1>>,
      <<"widget", "date", 8, 1, 2, 1>>, <<"widget", "notebook", 0, 1, 6, 3>> }

\* byName for the default layout of a board whose exampleBoard request had
\* returned when byName arrived.
AfterExampleBoard ==
    /\ Finished("byName")
    /\ call.input.layout = Undefined
    /\ call.input.boardName \in call.completed

\* C4: after exampleBoard(boardName) has completed, byName(boardName) with the
\* default layout succeeds with exactly one section, of type 'empty' at
\* position 0, whose items are the 4 apps and 4 widgets of exampleBoard with
\* the x, y, width and height given there, no two of them sharing a grid cell.
C4_ExampleBoardReturned ==
    AfterExampleBoard =>
        /\ call.result.status = "ok"
        /\ Len(call.result.value.sections) = 1
        /\ LET section == call.result.value.sections[1]
           IN  /\ section.type = "empty"
               /\ section.position = Position("number", 0)
               /\ Len(section.items) = 8
               /\ {Placed(section.items[i]) : i \in 1..8} = TheExampleBoard
               /\ \A i, j \in 1..8 :
                      i # j => Cells(section.items[i]) \cap Cells(section.items[j]) = {}

\* The example board is returned while a second board is being filled.
C4_Witness ==
    /\ AfterExampleBoard
    /\ call.result.status = "ok"
    /\ Len(db.board) = 2
    /\ InFlight # {}

\* C5: whatever exampleBoard and updateCustomization requests have run, no
\* two board rows have the same name and no two layout rows of one board
\* have the same name.
C5_NamesUnique ==
    /\ \A i, j \in 1..Len(db.board) : db.board[i].name = db.board[j].name => i = j
    /\ \A i, j \in 1..Len(db.layout) :
           db.layout[i].boardId = db.layout[j].boardId /\ db.layout[i].name = db.layout[j].name
               => i = j

\* exampleBoard was asked for a name a second time, and the board of that
\* name has had its customization updated.
C5_Witness ==
    /\ \E c \in 1..MaxCalls : ex[c].status = "failed"
    /\ \E i \in 1..Len(db.board) : db.board[i].primaryColor = "blue"

\* C6: a byName for the default layout never sees an exampleBoard half done:
\* it fails with 'Board not found' or returns one section holding 8 items.
C6_ExampleBoardAtomic ==
    Finished("byName") /\ call.input.layout = Undefined =>
        \/ call.result = NotFound("Board not found")
        \/ /\ call.result.status = "ok"
           /\ Len(call.result.value.sections) = 1
           /\ Len(call.result.value.sections[1].items) = 8
=============================================================================
